---- MODULE Spec2Model ----
(***************************************************************************)
(* Model of the edit-task client of rosslh/django-test-buildpack-app:      *)
(*   - pollTaskUntilComplete (utils/api): the timer-driven polling loop;   *)
(*   - TaskViewPage: the view that fetches a task and polls for its result;*)
(*   - EditingInterface: reconciliation of paragraphs into render items,   *)
(*     default selections and the review state; the form of the home page  *)
(*     (handleSubmit, editSection, getApiHeaders); the list of DiffList    *)
(*     and the text handleCopyToClipboard exports.                         *)
(* Indices of paragraphs are 0-based as in the source; TLA+ sequences are  *)
(* 1-based, so paragraph index i is element i + 1 of the sequence.         *)
(***************************************************************************)
EXTENDS Integers, Sequences, FiniteSets, TLC

\* ---------------------------------------------------------------- bounds
\* Largest maxAttempts argument explored for a directly started poll.
MaxAttemptsBound == 2
\* Number of pollTaskUntilComplete / fetchTask runs that may be started.
MaxRuns == 2

Runs == 1..MaxRuns
TaskIds == {"A", "B"}

\* ------------------------------------------------------- values of the API
\* Absent optional field of a response (undefined in the source).
NoValue == "undefined"

\* TaskStatusResponse.status, with REVOKED which the backend can also report.
Statuses == {"PENDING", "STARTED", "SUCCESS", "FAILURE", "RETRY", "REVOKED"}

\* EditResponse values (identified by name here) and ProgressData snapshots.
Results == {"r1", "r2"}
Snapshots == {"p1", "p2"}

\* Backend error strings of a FAILURE response; "" is the falsy string.
ErrorStrings == {"", "boom", "Polling timed out"}

\* new Error(message)
NewError(message) == [name |-> "Error", message |-> message]

\* The error of a rejected pending promise does not exist yet.
NoError == [name |-> NoValue, message |-> NoValue]

\* What axios rejects with when the request itself fails.
RequestErrors ==
    { [name |-> "AxiosError", message |-> "Network Error"],
      [name |-> "AxiosError", message |-> "Request failed with status code 404"] }

\* Responses of GET /api/results/{task_id} a directly started poll is fed.
Responses ==
    { r \in [status : Statuses, result : Results \cup {NoValue},
             error : ErrorStrings \cup {NoValue}, progress : Snapshots \cup {NoValue}] :
        /\ r.result # NoValue => r.status \in {"SUCCESS", "STARTED"}
        /\ r.result = "r2" => r.status = "SUCCESS"
        /\ r.error # NoValue => r.status = "FAILURE"
        /\ r.progress # NoValue => r.status \in {"PENDING", "STARTED", "SUCCESS", "FAILURE"}
        /\ r.progress = "p2" => r.status \in {"STARTED", "SUCCESS"} /\ r.error = NoValue }

\* --------------------------------------------------------------- state
VARIABLES
    pc,           \* per run: where the run is suspended
    taskId,       \* per run: the taskId argument
    maxAttempts,  \* per run: the maxAttempts argument
    onProgress,   \* per run: TRUE iff an onProgress callback was passed
    attempts,     \* per run: the local counter of pollTaskUntilComplete
    settled,      \* per run: state, result and error of the returned promise
    trace         \* per run: history of what a directly started poll did, in order

VARIABLES
    fetchPc,            \* per run: where TaskViewPage.fetchTask is suspended
    runInstance,        \* per run: the TaskViewPage instance whose effect started it
    mounted,            \* TRUE iff a TaskViewPage is mounted
    instance,           \* number of TaskViewPage instances mounted so far
    routeTaskId,        \* useParams().taskId of the mounted view
    task,               \* TaskViewPage state
    loading,
    error,
    pollingForResults,
    currentProgress

VARIABLES
    isViewingTask,      \* EditingInterface prop
    data,               \* EditingInterface state
    selections,
    copied,
    editingMode,
    articleTitle,
    sectionTitle,
    editLoading,        \* the loading state of EditingInterface
    editError,          \* the error state of EditingInterface
    apiKeyConfig,       \* EditingInterface prop, the state of App
    editRequest,        \* the POST /api/edit/{mode} request in flight
    clipboard,          \* the text navigator.clipboard holds
    copyTimers,         \* pending setTimeout(() => setCopied(false), 2000)
    lastHandler,        \* history: the handler of EditingInterface that ran last
    lastSelection       \* history: arguments of the last handleSelectionChange

VARIABLES
    oldValue,           \* the arguments of processWrappableUrls
    newValue,
    processed           \* what processWrappableUrls returned, <<>> before the call


pollVars == <<pc, taskId, maxAttempts, onProgress, attempts, settled>>
viewVars == <<fetchPc, runInstance, mounted, instance, routeTaskId, task, loading,
              error, pollingForResults, currentProgress>>
wrapVars == <<oldValue, newValue, processed>>
formVars == <<articleTitle, sectionTitle, editLoading, editError, apiKeyConfig,
              editRequest>>
copyVars == <<clipboard, copyTimers>>
editVars == <<isViewingTask, data, selections, copied, editingMode, formVars,
              copyVars, lastHandler, lastSelection>>
vars == <<pollVars, trace, viewVars, editVars, wrapVars>>

\* task === null
NoTask == [id |-> NoValue, status |-> NoValue, result |-> NoValue,
           error_message |-> NoValue]

Pending == [state |-> "pending", result |-> NoValue, error |-> NoError]

\* data === null
NoData == [isNull |-> TRUE, paragraphs |-> <<>>]

\* selections === {}
NoSelections == [i \in {} |-> "before"]

\* No handleSelectionChange call yet.
NoCall == <<-1, "before">>

\* No edit request in flight.
NoRequest == [isNull |-> TRUE]

\* Texts are sequences of characters; the empty string is the empty sequence.
EmptyText == <<>>

ApiProviders == {"google", "openai"}

\* apiKeyConfig === null
NoConfig == [isNull |-> TRUE, provider |-> NoValue, keys |-> <<>>]

\* ApiKeyConfig values: the selected provider and the optional key of each
\* provider; a provider outside DOMAIN keys has no key field.
ApiKeyConfigs ==
    { [isNull |-> FALSE, provider |-> p, keys |-> k] :
        p \in ApiProviders,
        k \in UNION { [S -> {<<" ">>, <<"k">>}] : S \in SUBSET ApiProviders } }

\* A configuration the settings dialog saved.
SavedConfig ==
    [isNull |-> FALSE, provider |-> "google", keys |-> [p \in {"google"} |-> <<"k">>]]

\* processWrappableUrls has not been called.
NotWrapping ==
    /\ oldValue = EmptyText
    /\ newValue = EmptyText
    /\ processed = <<>>

\* EditingInterface as mounted, with isViewingTask = viewing: TaskViewPage
\* mounts it with initialLoading = TRUE, the home page with the defaults.
InitEditing(viewing) ==
    /\ isViewingTask = viewing
    /\ data = NoData
    /\ selections = NoSelections
    /\ copied = FALSE
    /\ editingMode = "copyedit"
    /\ articleTitle = EmptyText
    /\ sectionTitle = EmptyText
    /\ editLoading = viewing
    /\ editError = NoValue
    /\ editRequest = NoRequest
    /\ clipboard = EmptyText
    /\ copyTimers = 0
    /\ lastHandler = "mount"
    /\ lastSelection = NoCall

Init ==
    /\ InitEditing(TRUE)
    /\ apiKeyConfig = SavedConfig
    /\ pc = [r \in Runs |-> "idle"]
    /\ taskId = [r \in Runs |-> NoValue]
    /\ maxAttempts = [r \in Runs |-> 0]
    /\ onProgress = [r \in Runs |-> FALSE]
    /\ attempts = [r \in Runs |-> 0]
    /\ settled = [r \in Runs |-> Pending]
    /\ trace = [r \in Runs |-> <<>>]
    /\ fetchPc = [r \in Runs |-> "idle"]
    /\ runInstance = [r \in Runs |-> 0]
    /\ mounted = FALSE
    /\ instance = 0
    /\ routeTaskId = NoValue
    /\ task = NoTask
    /\ loading = TRUE
    /\ error = NoValue
    /\ pollingForResults = FALSE
    /\ currentProgress = NoValue
    /\ NotWrapping

\* ------------------------------------------------------ faulty variants
\* poll() with the attempt budget tested before the status of the response.
PollEvents_BudgetFirst(response, hasCallback, att, maxAtt) ==
    <<  <<"response", response>> >>
    \o (IF hasCallback /\ response.progress # NoValue
        THEN << <<"progress", response.progress>> >> ELSE <<>>)
    \o (IF att >= maxAtt
          THEN << <<"reject", NewError("Polling timed out")>> >>
        ELSE IF response.status = "SUCCESS" /\ response.result # NoValue
          THEN << <<"resolve", response.result>> >>
        ELSE IF response.status = "FAILURE"
          THEN << <<"reject",
                    NewError(IF response.error \in {NoValue, ""}
                             THEN "Task failed" ELSE response.error)>> >>
        ELSE << <<"setTimeout", att + 1>> >>)

\* poll() reporting progress only when it goes on polling.
PollEvents_NoProgressOnTerminal(response, hasCallback, att, maxAtt) ==
    <<  <<"response", response>> >>
    \o (IF hasCallback /\ response.progress # NoValue
           /\ ~(response.status = "SUCCESS" /\ response.result # NoValue)
           /\ response.status # "FAILURE"
        THEN << <<"progress", response.progress>> >> ELSE <<>>)
    \o (IF response.status = "SUCCESS" /\ response.result # NoValue
          THEN << <<"resolve", response.result>> >>
        ELSE IF response.status = "FAILURE"
          THEN << <<"reject",
                    NewError(IF response.error \in {NoValue, ""}
                             THEN "Task failed" ELSE response.error)>> >>
        ELSE IF att >= maxAtt
          THEN << <<"reject", NewError("Polling timed out")>> >>
        ELSE << <<"setTimeout", att + 1>> >>)

\* poll() resolving on status SUCCESS alone, with or without a result.
PollEvents_SuccessAlone(response, hasCallback, att, maxAtt) ==
    <<  <<"response", response>> >>
    \o (IF hasCallback /\ response.progress # NoValue
        THEN << <<"progress", response.progress>> >> ELSE <<>>)
    \o (IF response.status = "SUCCESS"
          THEN << <<"resolve", response.result>> >>
        ELSE IF response.status = "FAILURE"
          THEN << <<"reject",
                    NewError(IF response.error \in {NoValue, ""}
                             THEN "Task failed" ELSE response.error)>> >>
        ELSE IF att >= maxAtt
          THEN << <<"reject", NewError("Polling timed out")>> >>
        ELSE << <<"setTimeout", att + 1>> >>)

\* poll() returning without reject when the attempt budget is used up.
PollEvents_SilentTimeout(response, hasCallback, att, maxAtt) ==
    <<  <<"response", response>> >>
    \o (IF hasCallback /\ response.progress # NoValue
        THEN << <<"progress", response.progress>> >> ELSE <<>>)
    \o (IF response.status = "SUCCESS" /\ response.result # NoValue
          THEN << <<"resolve", response.result>> >>
        ELSE IF response.status = "FAILURE"
          THEN << <<"reject",
                    NewError(IF response.error \in {NoValue, ""}
                             THEN "Task failed" ELSE response.error)>> >>
        ELSE IF att >= maxAtt
          THEN <<>>
        ELSE << <<"setTimeout", att + 1>> >>)

\* ------------------------------------------------ pollTaskUntilComplete
\* The body of poll() after `await getTaskStatus(taskId)` returned response:
\* the events it produces, in program order.
PollEvents(response, hasCallback, att, maxAtt) ==
    <<  <<"response", response>> >>
    \o (IF hasCallback /\ response.progress # NoValue
        THEN << <<"progress", response.progress>> >> ELSE <<>>)
    \o (IF response.status = "SUCCESS" /\ response.result # NoValue
          THEN << <<"resolve", response.result>> >>
        ELSE IF response.status = "FAILURE"
          THEN << <<"reject",
                    NewError(IF response.error \in {NoValue, ""}
                             THEN "Task failed" ELSE response.error)>> >>
        ELSE IF att >= maxAtt
          THEN << <<"reject", NewError("Polling timed out")>> >>
        ELSE << <<"setTimeout", att + 1>> >>)

\* The last event decides how the cycle ends.
LastEvent(events) == events[Len(events)]

\* pollTaskUntilComplete(taskId, onProgress, pollingInterval, maxAttempts):
\* attempts = 0 and the first poll() runs synchronously up to its request.
StartPoll(r, t, cb, maxAtt) ==
    /\ pc[r] = "idle"
    /\ pc' = [pc EXCEPT ![r] = "request"]
    /\ taskId' = [taskId EXCEPT ![r] = t]
    /\ onProgress' = [onProgress EXCEPT ![r] = cb]
    /\ maxAttempts' = [maxAttempts EXCEPT ![r] = maxAtt]
    /\ attempts' = [attempts EXCEPT ![r] = 0]
    /\ UNCHANGED settled

\* poll() without the return after reject: a rejected run polls on.
HandleResponse_NoReturnAfterReject(r, response) ==
    LET events == PollEvents(response, onProgress[r], attempts[r], maxAttempts[r])
        last == LastEvent(events)
    IN  /\ pc[r] = "request"
        /\ pc' = [pc EXCEPT ![r] = IF last[1] = "resolve" THEN "done" ELSE "timer"]
        /\ attempts' = [attempts EXCEPT ![r] = IF last[1] = "resolve" THEN @ ELSE @ + 1]
        /\ settled' = [settled EXCEPT ![r] =
                          IF last[1] = "resolve"
                            THEN [state |-> "resolved", result |-> last[2], error |-> NoError]
                          ELSE IF last[1] = "reject"
                            THEN [state |-> "rejected", result |-> NoValue, error |-> last[2]]
                          ELSE @]
        /\ UNCHANGED <<taskId, maxAttempts, onProgress>>

\* getTaskStatus resolves with response and poll() runs to its end.
HandleResponse(r, response) ==
    LET events == PollEvents(response, onProgress[r], attempts[r], maxAttempts[r])
        last == LastEvent(events)
    IN  /\ pc[r] = "request"
        /\ pc' = [pc EXCEPT ![r] = IF last[1] = "setTimeout" THEN "timer" ELSE "done"]
        /\ attempts' = [attempts EXCEPT ![r] = IF last[1] = "setTimeout" THEN @ + 1 ELSE @]
        /\ settled' = [settled EXCEPT ![r] =
                          IF last[1] = "resolve"
                            THEN [state |-> "resolved", result |-> last[2], error |-> NoError]
                          ELSE IF last[1] = "reject"
                            THEN [state |-> "rejected", result |-> NoValue, error |-> last[2]]
                          ELSE @]
        /\ UNCHANGED <<taskId, maxAttempts, onProgress>>

\* The catch block wrapping the error in a new Error.
HandleRequestError_Wrapped(r, err) ==
    /\ pc[r] = "request"
    /\ pc' = [pc EXCEPT ![r] = "done"]
    /\ settled' = [settled EXCEPT ![r] =
                      [state |-> "rejected", result |-> NoValue,
                       error |-> NewError(err.message)]]
    /\ UNCHANGED <<taskId, maxAttempts, onProgress, attempts>>

\* getTaskStatus rejects: the catch block rejects with the same error.
HandleRequestError(r, err) ==
    /\ pc[r] = "request"
    /\ pc' = [pc EXCEPT ![r] = "done"]
    /\ settled' = [settled EXCEPT ![r] =
                      [state |-> "rejected", result |-> NoValue, error |-> err]]
    /\ UNCHANGED <<taskId, maxAttempts, onProgress, attempts>>

\* The timer set by setTimeout(poll, pollingInterval) fires: poll() issues
\* the next request.
TimerFires(r) ==
    /\ pc[r] = "timer"
    /\ pc' = [pc EXCEPT ![r] = "request"]
    /\ UNCHANGED <<taskId, maxAttempts, onProgress, attempts, settled>>

\* ------------------------------------------------- a directly started poll
\* The history of run r grows by events.
Record(r, events) == trace' = [trace EXCEPT ![r] = @ \o events]

CallPoll ==
    /\ \E t \in TaskIds, cb \in BOOLEAN, maxAtt \in 0..MaxAttemptsBound :
          /\ StartPoll(1, t, cb, maxAtt)
          /\ Record(1, << <<"request", t>> >>)
    /\ UNCHANGED <<viewVars, editVars, wrapVars>>

StatusArrives ==
    /\ \E response \in Responses :
          /\ HandleResponse(1, response)
          /\ Record(1, PollEvents(response, onProgress[1], attempts[1], maxAttempts[1]))
    /\ UNCHANGED <<viewVars, editVars, wrapVars>>

StatusRequestFails ==
    /\ \E err \in RequestErrors :
          /\ HandleRequestError(1, err)
          /\ Record(1, << <<"error", err>>, <<"reject", settled'[1].error>> >>)
    /\ UNCHANGED <<viewVars, editVars, wrapVars>>

PollTimer ==
    /\ TimerFires(1)
    /\ Record(1, << <<"request", taskId[1]>> >>)
    /\ UNCHANGED <<viewVars, editVars, wrapVars>>

NextPoll == CallPoll \/ StatusArrives \/ StatusRequestFails \/ PollTimer

SpecPoll == Init /\ [][NextPoll]_vars

\* A directly started poll whose environment keeps its promises: every
\* status request completes, with a response or with an error (the await
\* of getTaskStatus returns or throws), and every timer set by setTimeout
\* fires.
SpecPollFair ==
    /\ Init
    /\ [][NextPoll]_vars
    /\ WF_vars(StatusArrives \/ StatusRequestFails)
    /\ WF_vars(PollTimer)

\* ------------------------------------------------------- TaskViewPage
\* maxAttempts of a poll started by fetchTask: the default of
\* pollTaskUntilComplete (200 in the source), scaled down.
PollBudget == 1

\* The backend answers for the task it is asked about.
ResultOf(t) == IF t = "A" THEN "r1" ELSE "r2"
SnapshotOf(t) == IF t = "A" THEN "p1" ELSE "p2"

\* Responses of GET /api/results/{t} fed to a poll started by the view.
ViewResponses(t) ==
    { [status |-> "PENDING", result |-> NoValue, error |-> NoValue, progress |-> NoValue],
      [status |-> "STARTED", result |-> NoValue, error |-> NoValue, progress |-> SnapshotOf(t)],
      [status |-> "SUCCESS", result |-> ResultOf(t), error |-> NoValue, progress |-> NoValue],
      [status |-> "SUCCESS", result |-> ResultOf(t), error |-> NoValue, progress |-> SnapshotOf(t)],
      [status |-> "FAILURE", result |-> NoValue, error |-> "boom", progress |-> NoValue] }

\* EditTaskDetail values of GET /api/tasks/{t}/.
Details(t) ==
    { d \in [id : {t}, status : Statuses \ {"RETRY"}, result : {ResultOf(t), NoValue},
             error_message : {"boom", NoValue}] :
        /\ d.result # NoValue <=> d.status = "SUCCESS"
        /\ d.error_message # NoValue <=> d.status = "FAILURE" }

\* The failure of a request of the view.
ViewRequestErrors == { [name |-> "AxiosError", message |-> "Network Error"] }

\* A state update of run r reaches the mounted view only if the view is the
\* instance whose effect started the run.
Applies(r) == mounted /\ runInstance[r] = instance

\* The view that started run r has been discarded or shows another task.
Discarded(r) == ~(Applies(r) /\ routeTaskId = taskId[r])

FirstIdleRun(r) ==
    /\ pc[r] = "idle" /\ fetchPc[r] = "idle"
    /\ \A q \in Runs : q < r => ~(pc[q] = "idle" /\ fetchPc[q] = "idle")

\* The route becomes /task/t: a TaskViewPage is mounted, or the mounted one
\* gets a new taskId; the effect runs fetchTask up to fetchEditTaskDetail.
OpenTask(t) ==
    /\ ~mounted \/ routeTaskId # t
    /\ \E r \in Runs :
        /\ FirstIdleRun(r)
        /\ fetchPc' = [fetchPc EXCEPT ![r] = "detail"]
        /\ taskId' = [taskId EXCEPT ![r] = t]
        /\ runInstance' = [runInstance EXCEPT ![r] = IF mounted THEN instance ELSE instance + 1]
    /\ instance' = IF mounted THEN instance ELSE instance + 1
    /\ mounted' = TRUE
    /\ routeTaskId' = t
    /\ UNCHANGED <<task, loading, error, pollingForResults, currentProgress>>
    /\ UNCHANGED <<pc, maxAttempts, onProgress, attempts, settled, trace>>

\* The route leaves /task/:taskId: the view and its state are discarded.
\* Nothing is done about the runs the view started.
LeaveTask ==
    /\ mounted
    /\ mounted' = FALSE
    /\ routeTaskId' = NoValue
    /\ task' = NoTask
    /\ loading' = TRUE
    /\ error' = NoValue
    /\ pollingForResults' = FALSE
    /\ currentProgress' = NoValue
    /\ UNCHANGED <<fetchPc, runInstance, instance, pollVars, trace>>

\* fetchEditTaskDetail resolves: setTask, then either poll or finish.
DetailArrives(r, taskData) ==
    /\ fetchPc[r] = "detail"
    /\ task' = IF Applies(r) THEN taskData ELSE task
    /\ IF taskData.status \in {"PENDING", "STARTED"}
         THEN /\ pollingForResults' = IF Applies(r) THEN TRUE ELSE pollingForResults
              /\ StartPoll(r, taskId[r], TRUE, PollBudget)
              /\ fetchPc' = [fetchPc EXCEPT ![r] = "polling"]
              /\ UNCHANGED loading
         ELSE /\ loading' = IF Applies(r) THEN FALSE ELSE loading
              /\ fetchPc' = [fetchPc EXCEPT ![r] = "done"]
              /\ UNCHANGED <<pollingForResults, pollVars>>
    /\ UNCHANGED <<runInstance, mounted, instance, routeTaskId, error, currentProgress, trace>>

\* fetchEditTaskDetail rejects: the outer catch and finally.
DetailFails(r, err) ==
    /\ fetchPc[r] = "detail"
    /\ fetchPc' = [fetchPc EXCEPT ![r] = "done"]
    /\ error' = IF Applies(r) THEN err.message ELSE error
    /\ loading' = IF Applies(r) THEN FALSE ELSE loading
    /\ UNCHANGED <<runInstance, mounted, instance, routeTaskId, task,
                   pollingForResults, currentProgress, pollVars, trace>>

\* A status response of the view's poll: the poll cycle, the onProgress
\* callback (setCurrentProgress) and, when the promise settles, the
\* continuation of fetchTask.
ViewStatusArrives(r, response) ==
    LET events == PollEvents(response, onProgress[r], attempts[r], maxAttempts[r])
        last == LastEvent(events)
        called == onProgress[r] /\ response.progress # NoValue
    IN  /\ fetchPc[r] = "polling"
        /\ HandleResponse(r, response)
        /\ IF last[1] = "resolve"
             THEN /\ fetchPc' = [fetchPc EXCEPT ![r] = "done"]
                  /\ task' = IF Applies(r) /\ task # NoTask
                               THEN [task EXCEPT !.status = "SUCCESS", !.result = last[2]]
                               ELSE task
                  /\ pollingForResults' = IF Applies(r) THEN FALSE ELSE pollingForResults
                  /\ currentProgress' = IF Applies(r) THEN NoValue ELSE currentProgress
                  /\ loading' = IF Applies(r) THEN FALSE ELSE loading
             ELSE /\ fetchPc' = [fetchPc EXCEPT ![r] =
                                    IF last[1] = "reject" THEN "refetch" ELSE @]
                  /\ currentProgress' = IF Applies(r) /\ called
                                          THEN response.progress ELSE currentProgress
                  /\ UNCHANGED <<task, pollingForResults, loading>>
        /\ UNCHANGED <<runInstance, mounted, instance, routeTaskId, error, trace>>

\* A status request of the view's poll fails: the poll rejects and the catch
\* of fetchTask fetches the task details again.
ViewStatusRequestFails(r, err) ==
    /\ fetchPc[r] = "polling"
    /\ HandleRequestError(r, err)
    /\ fetchPc' = [fetchPc EXCEPT ![r] = "refetch"]
    /\ UNCHANGED <<runInstance, mounted, instance, routeTaskId, task, loading,
                   error, pollingForResults, currentProgress, trace>>

ViewTimerFires(r) ==
    /\ fetchPc[r] = "polling"
    /\ TimerFires(r)
    /\ UNCHANGED <<viewVars, trace>>

\* The second fetchEditTaskDetail resolves: setTask and both finally blocks.
RefetchArrives(r, updatedTask) ==
    /\ fetchPc[r] = "refetch"
    /\ fetchPc' = [fetchPc EXCEPT ![r] = "done"]
    /\ task' = IF Applies(r) THEN updatedTask ELSE task
    /\ pollingForResults' = IF Applies(r) THEN FALSE ELSE pollingForResults
    /\ currentProgress' = IF Applies(r) THEN NoValue ELSE currentProgress
    /\ loading' = IF Applies(r) THEN FALSE ELSE loading
    /\ UNCHANGED <<runInstance, mounted, instance, routeTaskId, error, pollVars, trace>>

\* The second fetchEditTaskDetail rejects: setError and both finally blocks.
RefetchFails(r, fetchError) ==
    /\ fetchPc[r] = "refetch"
    /\ fetchPc' = [fetchPc EXCEPT ![r] = "done"]
    /\ error' = IF Applies(r) THEN fetchError.message ELSE error
    /\ pollingForResults' = IF Applies(r) THEN FALSE ELSE pollingForResults
    /\ currentProgress' = IF Applies(r) THEN NoValue ELSE currentProgress
    /\ loading' = IF Applies(r) THEN FALSE ELSE loading
    /\ UNCHANGED <<runInstance, mounted, instance, routeTaskId, task, pollVars, trace>>

Open ==
    /\ \E t \in TaskIds : OpenTask(t)
    /\ UNCHANGED <<editVars, wrapVars>>

Leave ==
    /\ LeaveTask
    /\ UNCHANGED <<editVars, wrapVars>>

TaskDetail ==
    /\ \E r \in Runs : \E d \in Details(taskId[r]) : DetailArrives(r, d)
    /\ UNCHANGED <<editVars, wrapVars>>

TaskDetailFails ==
    /\ \E r \in Runs : \E err \in ViewRequestErrors : DetailFails(r, err)
    /\ UNCHANGED <<editVars, wrapVars>>

ViewStatus ==
    /\ \E r \in Runs : \E response \in ViewResponses(taskId[r]) :
          ViewStatusArrives(r, response)
    /\ UNCHANGED <<editVars, wrapVars>>

ViewStatusFails ==
    /\ \E r \in Runs : \E err \in ViewRequestErrors : ViewStatusRequestFails(r, err)
    /\ UNCHANGED <<editVars, wrapVars>>

ViewTimer ==
    /\ \E r \in Runs : ViewTimerFires(r)
    /\ UNCHANGED <<editVars, wrapVars>>

Refetch ==
    /\ \E r \in Runs : \E d \in Details(taskId[r]) : RefetchArrives(r, d)
    /\ UNCHANGED <<editVars, wrapVars>>

RefetchError ==
    /\ \E r \in Runs : \E err \in ViewRequestErrors : RefetchFails(r, err)
    /\ UNCHANGED <<editVars, wrapVars>>

NextView ==
    \/ Open \/ Leave \/ TaskDetail \/ TaskDetailFails \/ ViewStatus
    \/ ViewStatusFails \/ ViewTimer \/ Refetch \/ RefetchError

SpecView == Init /\ [][NextView]_vars

\* A JavaScript string or null used as a condition.
Truthy(v) == v # NoValue /\ v # ""

\* The state TaskViewPage derives for the EditingInterface it renders.
interfaceLoading ==
    \/ loading
    \/ /\ ~Truthy(error)
       /\ task # NoTask
       /\ task.status # "FAILURE"
       /\ task.status \in {"PENDING", "STARTED"} \/ pollingForResults

interfaceError ==
    IF loading THEN NoValue
    ELSE IF Truthy(error) THEN error
    ELSE IF task = NoTask THEN "Task not found"
    ELSE IF task.status = "FAILURE"
      THEN IF Truthy(task.error_message) THEN task.error_message ELSE "Task failed"
    ELSE IF task.status \in {"PENDING", "STARTED"} \/ pollingForResults THEN NoValue
    ELSE IF ~Truthy(task.result) THEN "Task has no results to display"
    ELSE NoValue

interfaceData ==
    IF /\ ~loading
       /\ ~Truthy(error)
       /\ task # NoTask
       /\ task.status # "FAILURE"
       /\ ~(task.status \in {"PENDING", "STARTED"} \/ pollingForResults)
       /\ Truthy(task.result)
      THEN task.result
      ELSE NoValue

\* --------------------------------------------------- EditingInterface
\* Longest paragraph sequence of a loaded result.
MaxLen == 3

ParagraphStatuses == {"CHANGED", "UNCHANGED", "REJECTED", "SKIPPED", "ERRORED"}

\* The paragraph at index i of a result: its texts are distinct from those of
\* every other index, and its edited text differs from its original text.
ParagraphAt(i, status) ==
    [before |-> <<"before", i>>, after |-> <<"after", i>>, status |-> status]

\* EditResponse values: every sequence of statuses up to MaxLen.
EditResponses ==
    { [isNull |-> FALSE,
       paragraphs |-> [k \in 1..n |-> ParagraphAt(k - 1, statuses[k])]] :
        n \in 0..MaxLen, statuses \in [1..MaxLen -> ParagraphStatuses] }

\* The loop body recording the index of every unchanged paragraph it appends.
ReconcileStep_LastIndex(acc, p, index) ==
    IF p.status = "CHANGED"
      THEN LET flush == Len(acc.unchangedGroup) > 0
               flushed ==
                   IF flush
                     THEN Append(acc.items,
                                 [type |-> "UNCHANGED_GROUP",
                                  paragraphs |-> acc.unchangedGroup,
                                  originalIndex |-> acc.firstUnchangedIndex])
                     ELSE acc.items
           IN  [items |-> Append(flushed,
                                 [type |-> "CHANGED", paragraph |-> p,
                                  originalIndex |-> index]),
                unchangedGroup |-> IF flush THEN <<>> ELSE acc.unchangedGroup,
                firstUnchangedIndex |-> IF flush THEN -1 ELSE acc.firstUnchangedIndex]
      ELSE [items |-> acc.items,
            unchangedGroup |-> Append(acc.unchangedGroup, p),
            firstUnchangedIndex |-> index]

\* The loop body emitting every unchanged paragraph as a group of its own.
ReconcileStep_GroupPerParagraph(acc, p, index) ==
    IF p.status = "CHANGED"
      THEN [items |-> Append(acc.items,
                             [type |-> "CHANGED", paragraph |-> p,
                              originalIndex |-> index]),
            unchangedGroup |-> acc.unchangedGroup,
            firstUnchangedIndex |-> acc.firstUnchangedIndex]
      ELSE [items |-> Append(acc.items,
                             [type |-> "UNCHANGED_GROUP", paragraphs |-> <<p>>,
                              originalIndex |-> index]),
            unchangedGroup |-> acc.unchangedGroup,
            firstUnchangedIndex |-> acc.firstUnchangedIndex]

\* renderItems: the body of data.paragraphs.forEach((p, index) => ...), from
\* the loop state acc = (items, unchangedGroup, firstUnchangedIndex).
ReconcileStep(acc, p, index) ==
    IF p.status = "CHANGED"
      THEN LET flush == Len(acc.unchangedGroup) > 0
               flushed ==
                   IF flush
                     THEN Append(acc.items,
                                 [type |-> "UNCHANGED_GROUP",
                                  paragraphs |-> acc.unchangedGroup,
                                  originalIndex |-> acc.firstUnchangedIndex])
                     ELSE acc.items
           IN  [items |-> Append(flushed,
                                 [type |-> "CHANGED", paragraph |-> p,
                                  originalIndex |-> index]),
                unchangedGroup |-> IF flush THEN <<>> ELSE acc.unchangedGroup,
                firstUnchangedIndex |-> IF flush THEN -1 ELSE acc.firstUnchangedIndex]
      ELSE [items |-> acc.items,
            unchangedGroup |-> Append(acc.unchangedGroup, p),
            firstUnchangedIndex |->
                IF acc.firstUnchangedIndex = -1 THEN index ELSE acc.firstUnchangedIndex]

\* renderItems without the flush after the loop.
ReconcileFinish_NoFlush(acc) == acc.items

\* renderItems: the flush after the loop.
ReconcileFinish(acc) ==
    IF Len(acc.unchangedGroup) > 0
      THEN Append(acc.items,
                  [type |-> "UNCHANGED_GROUP",
                   paragraphs |-> acc.unchangedGroup,
                   originalIndex |-> acc.firstUnchangedIndex])
      ELSE acc.items

\* forEach from index on.
RECURSIVE ReconcileFrom(_, _, _)
ReconcileFrom(paragraphs, index, acc) ==
    IF index >= Len(paragraphs) THEN ReconcileFinish(acc)
    ELSE ReconcileFrom(paragraphs, index + 1,
                       ReconcileStep(acc, paragraphs[index + 1], index))

\* The renderItems memo of EditingInterface.
RenderItems(d) ==
    IF d.isNull THEN <<>>
    ELSE ReconcileFrom(d.paragraphs, 0,
                       [items |-> <<>>, unchangedGroup |-> <<>>,
                        firstUnchangedIndex |-> -1])

renderItems == RenderItems(data)

\* The effect on [data] seeding no entry at all.
DefaultSelections_None(d) == [i \in {} |-> "before"]

\* The effect on [data]: the default selections of a loaded result.
DefaultSelections(d) ==
    [i \in { k \in 0..(Len(d.paragraphs) - 1) : d.paragraphs[k + 1].status = "CHANGED" }
        |-> "before"]

\* The effect on [data] patching the previous map instead of replacing it.
SeededSelections_Patched(prev, d) ==
    IF d.isNull THEN prev
    ELSE [i \in DOMAIN prev \cup DOMAIN DefaultSelections(d) |->
              IF i \in DOMAIN prev THEN prev[i] ELSE "before"]

\* The selections the effect on [data] leaves, given the map before it.
SeededSelections(prev, d) ==
    IF d.isNull THEN prev ELSE DefaultSelections(d)

IsChanged(p) == p.status = "CHANGED"

\* changedParagraphs counting every paragraph of the result.
ChangedParagraphs_AllParagraphs(d) ==
    IF d.isNull THEN 0 ELSE Len(d.paragraphs)

\* data?.paragraphs.filter(p => p.status === 'CHANGED').length || 0
ChangedParagraphs(d) ==
    IF d.isNull THEN 0 ELSE Len(SelectSeq(d.paragraphs, IsChanged))

\* Object.keys(selections).length === changedParagraphs
AllSelectionsMade(sel, d) == Cardinality(DOMAIN sel) = ChangedParagraphs(d)

changedParagraphs == ChangedParagraphs(data)
allSelectionsMade == AllSelectionsMade(selections, data)

\* The values TaskViewPage derives for the props initialLoading,
\* initialError and initialData: loading, an error message, or a result.
TaskViewProps ==
    { [loading |-> TRUE, error |-> NoValue, data |-> NoData] }
    \cup { [loading |-> FALSE, error |-> e, data |-> NoData] :
             e \in {"Task failed", "Network Error"} }
    \cup { [loading |-> FALSE, error |-> NoValue, data |-> d] : d \in EditResponses }

\* The initialData prop changes (TaskViewPage passes a new interfaceData):
\* the effect on [initialData] sets data, and the effect on [data] seeds the
\* selections. Both effects are flushed before any other handler runs.
InitialDataChanges(initialData) ==
    /\ isViewingTask
    /\ ~(initialData.isNull /\ data.isNull)
    /\ data' = initialData
    /\ selections' = SeededSelections(selections, initialData)
    /\ lastHandler' = "load"
    /\ lastSelection' = NoCall
    /\ UNCHANGED <<isViewingTask, copied, editingMode, articleTitle, sectionTitle,
                   apiKeyConfig, editRequest, copyVars>>

\* TaskViewPage renders with new derived props: the effects on
\* [initialLoading] and [initialError] copy them into the state, and the
\* effect on [initialData] runs when a result is passed or withdrawn.
InitialPropsChange(props) ==
    /\ isViewingTask
    /\ editLoading' = props.loading
    /\ editError' = props.error
    /\ IF props.data.isNull /\ data.isNull
         THEN /\ <<props.loading, props.error>> # <<editLoading, editError>>
              /\ lastHandler' = "props"
              /\ lastSelection' = NoCall
              /\ UNCHANGED <<isViewingTask, data, selections, copied, editingMode,
                             articleTitle, sectionTitle, apiKeyConfig, editRequest,
                             copyVars>>
         ELSE InitialDataChanges(props.data)

\* { ...prev, [index]: selection } keeping an entry the map already has.
WithSelection_FirstWins(prev, index, selection) ==
    [i \in DOMAIN prev \cup {index} |->
        IF i \in DOMAIN prev THEN prev[i] ELSE selection]

\* { ...prev, [index]: selection }
WithSelection(prev, index, selection) ==
    [i \in DOMAIN prev \cup {index} |-> IF i = index THEN selection ELSE prev[i]]

\* handleSelectionChange, called by the DiffViewer of a CHANGED render item
\* with the item's originalIndex.
HandleSelectionChange(index, selection) ==
    /\ \E k \in 1..Len(renderItems) :
          renderItems[k].type = "CHANGED" /\ renderItems[k].originalIndex = index
    /\ selections' = WithSelection(selections, index, selection)
    /\ copied' = FALSE
    /\ lastHandler' = "select"
    /\ lastSelection' = <<index, selection>>
    /\ UNCHANGED <<isViewingTask, data, editingMode, formVars, copyVars>>

\* The form controls disabled only while loading.
FormDisabled_LoadingOnly == editLoading

\* disabled={loading || disabled} of the inputs, the mode buttons and the
\* submit button of EditingForm; Sidebar passes disabled={isViewingTask}.
FormDisabled == editLoading \/ isViewingTask

\* The EditingInterface of the home page is mounted until it navigates to
\* the task it submitted; the one of the task view is mounted throughout.
FormEnabled ==
    /\ ~FormDisabled
    /\ ~isViewingTask => routeTaskId = NoValue

\* handleModeChange
HandleModeChange(mode) ==
    /\ editingMode' = mode
    /\ IF ~isViewingTask
         THEN /\ data' = NoData
              /\ selections' = NoSelections
              /\ copied' = FALSE
              /\ editError' = NoValue
         ELSE UNCHANGED <<data, selections, copied, editError>>
    /\ lastHandler' = "mode"
    /\ lastSelection' = NoCall
    /\ UNCHANGED <<isViewingTask, articleTitle, sectionTitle, editLoading,
                   apiKeyConfig, editRequest, copyVars>>

LoadResult ==
    /\ \E props \in TaskViewProps : InitialPropsChange(props)
    /\ UNCHANGED <<pollVars, trace, viewVars, wrapVars>>

Select ==
    /\ \E index \in 0..(MaxLen - 1), selection \in {"before", "after"} :
          HandleSelectionChange(index, selection)
    /\ UNCHANGED <<pollVars, trace, viewVars, wrapVars>>

ChangeMode ==
    /\ FormEnabled
    /\ \E mode \in {"brevity", "copyedit"} : HandleModeChange(mode)
    /\ UNCHANGED <<pollVars, trace, viewVars, wrapVars>>

\* What the user can type into a title input.
Titles == {EmptyText, <<" ">>, <<"A">>, <<" ", "A", " ">>}

\* String.prototype.trim leaving the text as it is.
Trim_Nothing(text) == text

RECURSIVE TrimStart(_)
TrimStart(text) ==
    IF text # EmptyText /\ Head(text) = " " THEN TrimStart(Tail(text)) ELSE text

RECURSIVE TrimEnd(_)
TrimEnd(text) ==
    IF text # EmptyText /\ text[Len(text)] = " "
      THEN TrimEnd(SubSeq(text, 1, Len(text) - 1))
      ELSE text

\* String.prototype.trim
Trim(text) == TrimEnd(TrimStart(text))

\* The key header of a provider.
KeyHeader(provider) ==
    IF provider = "google" THEN "X-Google-API-Key" ELSE "X-OpenAI-API-Key"

\* getApiHeaders: the key header of the selected provider is added only if
\* the configuration has a key for it that is not blank.
GetApiHeaders(config) ==
    IF config.provider \in DOMAIN config.keys
         /\ Trim(config.keys[config.provider]) # EmptyText
      THEN [h \in {"Content-Type", KeyHeader(config.provider)} |->
               IF h = "Content-Type" THEN <<"application/json">>
               ELSE config.keys[config.provider]]
      ELSE [h \in {"Content-Type"} |-> <<"application/json">>]

\* editSection: the request axios.post sends.
EditSection(mode, article, section, config) ==
    [isNull |-> FALSE,
     url |-> <<"/api/edit/", mode>>,
     body |-> [article_title |-> article, section_title |-> section],
     headers |-> GetApiHeaders(config)]

\* handleSubmit up to its first await.
HandleSubmit ==
    /\ lastHandler' = "submit"
    /\ lastSelection' = NoCall
    /\ IF Trim(articleTitle) = EmptyText
         THEN /\ editError' = "Article title is required."
              /\ UNCHANGED <<data, selections, copied, editLoading, editRequest>>
       ELSE IF Trim(sectionTitle) = EmptyText
         THEN /\ editError' = "Section title is required."
              /\ UNCHANGED <<data, selections, copied, editLoading, editRequest>>
       ELSE IF apiKeyConfig.isNull
         THEN /\ editError' = "Please configure your API key in settings."
              /\ UNCHANGED <<data, selections, copied, editLoading, editRequest>>
       ELSE /\ editLoading' = TRUE
            /\ editError' = NoValue
            /\ data' = NoData
            /\ selections' = NoSelections
            /\ copied' = FALSE
            /\ editRequest' = EditSection(editingMode, articleTitle, sectionTitle,
                                          apiKeyConfig)
    /\ UNCHANGED <<isViewingTask, editingMode, articleTitle, sectionTitle,
                   apiKeyConfig, copyVars>>

\* handleSubmit after editSection resolved on the home page: navigate to
\* the task, then the finally block. The home page is unmounted by the
\* navigation. (With isViewingTask the form is disabled and handleSubmit is
\* never called.)
EditSectionResolves(id) ==
    /\ ~editRequest.isNull
    /\ ~isViewingTask
    /\ routeTaskId' = id
    /\ editLoading' = FALSE
    /\ editRequest' = NoRequest
    /\ lastHandler' = "navigate"
    /\ lastSelection' = NoCall
    /\ UNCHANGED <<isViewingTask, data, selections, copied, editingMode,
                   articleTitle, sectionTitle, editError, apiKeyConfig, copyVars>>

\* handleSubmit after editSection rejected: the catch and finally blocks.
EditSectionRejects(err) ==
    /\ ~editRequest.isNull
    /\ editError' = err.message
    /\ editLoading' = FALSE
    /\ editRequest' = NoRequest
    /\ lastHandler' = "rejected"
    /\ lastSelection' = NoCall
    /\ UNCHANGED <<isViewingTask, data, selections, copied, editingMode,
                   articleTitle, sectionTitle, apiKeyConfig, copyVars>>

\* onArticleTitleChange={setArticleTitle}
SetArticleTitle(title) ==
    /\ articleTitle' = title
    /\ lastHandler' = "title"
    /\ lastSelection' = NoCall
    /\ UNCHANGED <<isViewingTask, data, selections, copied, editingMode,
                   sectionTitle, editLoading, editError, apiKeyConfig, editRequest,
                   copyVars>>

\* onSectionTitleChange={setSectionTitle}
SetSectionTitle(title) ==
    /\ sectionTitle' = title
    /\ lastHandler' = "title"
    /\ lastSelection' = NoCall
    /\ UNCHANGED <<isViewingTask, data, selections, copied, editingMode,
                   articleTitle, editLoading, editError, apiKeyConfig, editRequest,
                   copyVars>>

TypeArticleTitle ==
    /\ FormEnabled
    /\ \E title \in Titles : SetArticleTitle(title)
    /\ UNCHANGED <<pollVars, trace, viewVars, wrapVars>>

TypeSectionTitle ==
    /\ FormEnabled
    /\ \E title \in Titles : SetSectionTitle(title)
    /\ UNCHANGED <<pollVars, trace, viewVars, wrapVars>>

Submit ==
    /\ FormEnabled
    /\ HandleSubmit
    /\ UNCHANGED <<pollVars, trace, viewVars, wrapVars>>

TaskCreated ==
    /\ \E id \in TaskIds : EditSectionResolves(id)
    /\ UNCHANGED <<pollVars, trace, fetchPc, runInstance, mounted, instance, task,
                   loading, error, pollingForResults, currentProgress, wrapVars>>

EditRequestFails ==
    /\ \E err \in RequestErrors : EditSectionRejects(err)
    /\ UNCHANGED <<pollVars, trace, viewVars, wrapVars>>

\* ------------------------------------------- DiffList and the export
\* Pending "copied" reset timers a view may hold at once.
MaxCopyTimers == 2

\* A text is a sequence of blocks. The original and the edited text of a
\* paragraph are one block each; the separator "\n\n" is a block of its own.
Separator == <<"\n\n", 0>>

\* The segment of a paragraph taking the choice whatever the status is.
Segment_AnyStatus(p, index, sel) ==
    IF index \in DOMAIN sel /\ sel[index] = "after" THEN <<p.after>> ELSE <<p.before>>

\* The callback of data.paragraphs.map in handleCopyToClipboard;
\* selections[index] of an index without entry is undefined.
Segment(p, index, sel) ==
    IF p.status = "CHANGED"
      THEN IF index \in DOMAIN sel /\ sel[index] = "after"
             THEN <<p.after>> ELSE <<p.before>>
      ELSE <<p.before>>

\* Array.prototype.join
RECURSIVE Join(_, _)
Join(segments, separator) ==
    IF segments = <<>> THEN EmptyText
    ELSE IF Len(segments) = 1 THEN segments[1]
    ELSE segments[1] \o <<separator>> \o Join(Tail(segments), separator)

\* finalText of handleCopyToClipboard
FinalText(d, sel) ==
    Join([k \in 1..Len(d.paragraphs) |-> Segment(d.paragraphs[k], k - 1, sel)],
         Separator)

\* virtuosoItems with the footer pushed before the render items.
VirtuosoItems_FooterFirst(items, mode, changed, allMade, isCopied, hideHeader) ==
    (IF hideHeader THEN <<>>
     ELSE <<[type |-> "HEADER", editingMode |-> mode, changedParagraphs |-> changed]>>)
    \o (IF allMade THEN <<[type |-> "FOOTER", copied |-> isCopied]>> ELSE <<>>)
    \o items

\* The virtuosoItems memo of DiffList.
VirtuosoItems(items, mode, changed, allMade, isCopied, hideHeader) ==
    (IF hideHeader THEN <<>>
     ELSE <<[type |-> "HEADER", editingMode |-> mode, changedParagraphs |-> changed]>>)
    \o items
    \o (IF allMade THEN <<[type |-> "FOOTER", copied |-> isCopied]>> ELSE <<>>)

\* MainContent renders DiffList only while a result is loaded, with
\* hideHeader={isViewingTask}.
virtuosoItems ==
    IF data.isNull THEN <<>>
    ELSE VirtuosoItems(renderItems, editingMode, changedParagraphs,
                       allSelectionsMade, copied, isViewingTask)

\* The copy button is part of the footer item.
FooterShown ==
    \E k \in 1..Len(virtuosoItems) : virtuosoItems[k].type = "FOOTER"

\* What navigator.clipboard.writeText can do: the returned promise
\* resolves or rejects, or navigator.clipboard is undefined and the call
\* throws.
ClipboardOutcomes == {"written", "rejected", "unavailable"}

\* handleCopyToClipboard. The promise of writeText is neither awaited nor
\* caught; a throwing call ends the handler before setCopied.
HandleCopyToClipboard(outcome) ==
    /\ ~data.isNull
    /\ clipboard' = IF outcome = "written" THEN FinalText(data, selections)
                                           ELSE clipboard
    /\ copied' = IF outcome = "unavailable" THEN copied ELSE TRUE
    /\ copyTimers' = IF outcome = "unavailable" THEN copyTimers ELSE copyTimers + 1
    /\ lastHandler' = IF outcome = "written" THEN "copy"
                      ELSE IF outcome = "rejected" THEN "copyRejected"
                      ELSE "copyThrew"
    /\ lastSelection' = NoCall
    /\ UNCHANGED <<isViewingTask, data, selections, editingMode, formVars>>

\* setTimeout(() => setCopied(false), 2000)
CopiedTimerFires ==
    /\ copyTimers > 0
    /\ copyTimers' = copyTimers - 1
    /\ copied' = FALSE
    /\ lastHandler' = "timer"
    /\ lastSelection' = NoCall
    /\ UNCHANGED <<isViewingTask, data, selections, editingMode, formVars, clipboard>>

Copy ==
    /\ FooterShown
    /\ copyTimers < MaxCopyTimers
    /\ \E outcome \in ClipboardOutcomes : HandleCopyToClipboard(outcome)
    /\ UNCHANGED <<pollVars, trace, viewVars, wrapVars>>

CopyTimer ==
    /\ CopiedTimerFires
    /\ UNCHANGED <<pollVars, trace, viewVars, wrapVars>>

\* handleCopyToClipboard applied to any result and any selection map.
Export ==
    /\ copyTimers < MaxCopyTimers
    /\ \E outcome \in ClipboardOutcomes : HandleCopyToClipboard(outcome)
    /\ UNCHANGED <<pollVars, trace, viewVars, wrapVars>>

NextReview ==
    \/ LoadResult \/ Select \/ ChangeMode
    \/ TypeArticleTitle \/ TypeSectionTitle \/ Submit \/ TaskCreated
    \/ EditRequestFails

InitReview ==
    /\ \E viewing \in BOOLEAN :
          /\ InitEditing(viewing)
          /\ apiKeyConfig \in IF viewing THEN {SavedConfig}
                                         ELSE ApiKeyConfigs \cup {NoConfig}
    /\ pc = [r \in Runs |-> "idle"]
    /\ taskId = [r \in Runs |-> NoValue]
    /\ maxAttempts = [r \in Runs |-> 0]
    /\ onProgress = [r \in Runs |-> FALSE]
    /\ attempts = [r \in Runs |-> 0]
    /\ settled = [r \in Runs |-> Pending]
    /\ trace = [r \in Runs |-> <<>>]
    /\ fetchPc = [r \in Runs |-> "idle"]
    /\ runInstance = [r \in Runs |-> 0]
    /\ mounted = FALSE
    /\ instance = 0
    /\ routeTaskId = NoValue
    /\ task = NoTask
    /\ loading = TRUE
    /\ error = NoValue
    /\ pollingForResults = FALSE
    /\ currentProgress = NoValue
    /\ NotWrapping

SpecReview == InitReview /\ [][NextReview]_vars

\* The state of everything but the EditingInterface under review.
InitRest ==
    /\ pc = [r \in Runs |-> "idle"]
    /\ taskId = [r \in Runs |-> NoValue]
    /\ maxAttempts = [r \in Runs |-> 0]
    /\ onProgress = [r \in Runs |-> FALSE]
    /\ attempts = [r \in Runs |-> 0]
    /\ settled = [r \in Runs |-> Pending]
    /\ trace = [r \in Runs |-> <<>>]
    /\ fetchPc = [r \in Runs |-> "idle"]
    /\ runInstance = [r \in Runs |-> 0]
    /\ mounted = FALSE
    /\ instance = 0
    /\ routeTaskId = NoValue
    /\ task = NoTask
    /\ loading = TRUE
    /\ error = NoValue
    /\ pollingForResults = FALSE
    /\ currentProgress = NoValue

\* An EditingInterface holding result d and selection map sel.
Reviewing(viewing, d, sel) ==
    /\ isViewingTask = viewing
    /\ data = d
    /\ selections = sel
    /\ copied = FALSE
    /\ editingMode = "copyedit"
    /\ articleTitle = EmptyText
    /\ sectionTitle = EmptyText
    /\ editLoading = FALSE
    /\ editError = NoValue
    /\ apiKeyConfig = SavedConfig
    /\ editRequest = NoRequest
    /\ clipboard = EmptyText
    /\ copyTimers = 0
    /\ lastHandler = "load"
    /\ lastSelection = NoCall

\* The task view right after a result has been loaded and its selections
\* seeded; from there on the reviewer toggles and copies.
InitCopy ==
    /\ \E d \in EditResponses : Reviewing(TRUE, d, DefaultSelections(d))
    /\ InitRest
    /\ NotWrapping

NextCopy == Select \/ Copy \/ CopyTimer

SpecCopy == InitCopy /\ [][NextCopy]_vars

\* Every selection map over the paragraph indices.
SelectionMaps ==
    UNION { [S -> {"before", "after"}] : S \in SUBSET (0..(MaxLen - 1)) }

\* The export and the list as functions of their inputs: any result, any
\* selection map, with and without header.
InitAssemble ==
    /\ \E viewing \in BOOLEAN, d \in EditResponses, sel \in SelectionMaps :
          Reviewing(viewing, d, sel)
    /\ InitRest
    /\ NotWrapping

NextAssemble == Export

SpecAssemble == InitAssemble /\ [][NextAssemble]_vars

\* ------------------------------------------------ processWrappableUrls
\* Longest text, in pieces, processWrappableUrls is applied to.
MaxPieces == 4

\* const ZWSP
ZWSP == "u200B"

\* The characters of WRAPPABLE_CHARS_REGEX.
WrappableChars == {"/", ".", "-", "_", "?", "=", "&", "%", "#", "~"}

\* The characters URL_REGEX excludes from a URL; " " stands for white space.
UrlStopChars == {" ", "<", ">", "(", ")"}

HttpScheme == <<"h", "t", "t", "p", ":", "/", "/">>
HttpsScheme == <<"h", "t", "t", "p", "s", ":", "/", "/">>

\* The text has pattern at position i.
StartsWithAt(text, i, pattern) ==
    /\ i + Len(pattern) - 1 <= Len(text)
    /\ SubSeq(text, i, i + Len(pattern) - 1) = pattern

\* Length of the https?:\/\/ part of a match of URL_REGEX at position i.
SchemeLenAt(text, i) ==
    IF StartsWithAt(text, i, HttpsScheme) THEN Len(HttpsScheme)
    ELSE IF StartsWithAt(text, i, HttpScheme) THEN Len(HttpScheme)
    ELSE 0

\* Last position of the run [^\s<>()]* that starts at position j.
RECURSIVE RunEnd(_, _)
RunEnd(text, j) ==
    IF j <= Len(text) /\ text[j] \notin UrlStopChars THEN RunEnd(text, j + 1)
    ELSE j - 1

\* Last position of the match of URL_REGEX at position i, 0 if none.
UrlEndAt(text, i) ==
    LET n == SchemeLenAt(text, i)
    IN  IF n > 0 /\ RunEnd(text, i + n) >= i + n THEN RunEnd(text, i + n) ELSE 0

\* text.match(URL_REGEX) || [] from position i on.
RECURSIVE ExtractUrlsFrom(_, _)
ExtractUrlsFrom(text, i) ==
    IF i > Len(text) THEN <<>>
    ELSE IF UrlEndAt(text, i) = 0 THEN ExtractUrlsFrom(text, i + 1)
    ELSE <<SubSeq(text, i, UrlEndAt(text, i))>>
         \o ExtractUrlsFrom(text, UrlEndAt(text, i) + 1)

\* extractUrls
ExtractUrls(text) == ExtractUrlsFrom(text, 1)

\* addWrappableSpaces: url.replace(WRAPPABLE_CHARS_REGEX, `$1${ZWSP}`)
RECURSIVE AddWrappableSpaces(_)
AddWrappableSpaces(url) ==
    IF url = <<>> THEN <<>>
    ELSE (IF Head(url) \in WrappableChars THEN <<Head(url), ZWSP>> ELSE <<Head(url)>>)
         \o AddWrappableSpaces(Tail(url))

\* The text String.prototype.replace substitutes for the match at positions
\* first..last of subject, given a replacement string and a pattern without
\* capture groups: $$ is a dollar sign, $& the match, $` the text before the
\* match, $' the text after it; any other character stands for itself.
RECURSIVE Expand(_, _, _, _, _)
Expand(replacement, k, subject, first, last) ==
    IF k > Len(replacement) THEN <<>>
    ELSE IF replacement[k] = "$" /\ k < Len(replacement)
      THEN IF replacement[k + 1] = "$"
             THEN <<"$">> \o Expand(replacement, k + 2, subject, first, last)
           ELSE IF replacement[k + 1] = "&"
             THEN SubSeq(subject, first, last)
                  \o Expand(replacement, k + 2, subject, first, last)
           ELSE IF replacement[k + 1] = "`"
             THEN SubSeq(subject, 1, first - 1)
                  \o Expand(replacement, k + 2, subject, first, last)
           ELSE IF replacement[k + 1] = "'"
             THEN SubSeq(subject, last + 1, Len(subject))
                  \o Expand(replacement, k + 2, subject, first, last)
           ELSE <<"$">> \o Expand(replacement, k + 1, subject, first, last)
    ELSE <<replacement[k]>> \o Expand(replacement, k + 1, subject, first, last)

\* subject.replace(new RegExp(escapeRegExp(pattern), 'g'), replacement) from
\* position i on: the escaped pattern matches its own text and nothing else.
RECURSIVE ReplaceAllFrom(_, _, _, _)
ReplaceAllFrom(subject, i, pattern, replacement) ==
    IF i > Len(subject) THEN <<>>
    ELSE IF StartsWithAt(subject, i, pattern)
      THEN Expand(replacement, 1, subject, i, i + Len(pattern) - 1)
           \o ReplaceAllFrom(subject, i + Len(pattern), pattern, replacement)
    ELSE <<subject[i]>> \o ReplaceAllFrom(subject, i + 1, pattern, replacement)

ReplaceAll(subject, pattern, replacement) ==
    ReplaceAllFrom(subject, 1, pattern, replacement)

\* The elements of new Set(urls) in iteration (first insertion) order.
RECURSIVE SetOrder(_)
SetOrder(urls) ==
    IF urls = <<>> THEN <<>>
    ELSE LET rest == SetOrder(SubSeq(urls, 1, Len(urls) - 1))
             last == urls[Len(urls)]
         IN  IF \E k \in 1..Len(rest) : rest[k] = last THEN rest
             ELSE Append(rest, last)

\* The forEach of processWrappableUrls over the urls from the k-th on.
RECURSIVE WrapEach(_, _, _)
WrapEach(urls, k, values) ==
    IF k > Len(urls) THEN values
    ELSE WrapEach(urls, k + 1,
                  <<ReplaceAll(values[1], urls[k], AddWrappableSpaces(urls[k])),
                    ReplaceAll(values[2], urls[k], AddWrappableSpaces(urls[k]))>>)

\* processWrappableUrls
ProcessWrappableUrls(old, new) ==
    LET oldUrls == ExtractUrls(old)
        newUrls == ExtractUrls(new)
        Includes(url) == \E k \in 1..Len(newUrls) : newUrls[k] = url
        commonUrls == SelectSeq(oldUrls, Includes)
    IN  WrapEach(SetOrder(commonUrls), 1, <<old, new>>)

\* The pieces the argument texts are put together from: the URL http://a,
\* a wrap-eligible character, white space and a dollar sign.
Pieces == { HttpScheme \o <<"a">>, <<"/">>, <<" ">>, <<"$">> }

RECURSIVE Concat(_)
Concat(pieces) ==
    IF pieces = <<>> THEN EmptyText ELSE Head(pieces) \o Concat(Tail(pieces))

\* The argument texts: up to MaxPieces pieces in any order.
WrapTexts ==
    { Concat(pieces) : pieces \in UNION { [1..n -> Pieces] : n \in 0..MaxPieces } }

\* DiffViewer calls processWrappableUrls(oldValue, newValue).
CallProcessWrappableUrls ==
    /\ processed = <<>>
    /\ processed' = ProcessWrappableUrls(oldValue, newValue)
    /\ UNCHANGED <<oldValue, newValue>>

Wrap ==
    /\ CallProcessWrappableUrls
    /\ UNCHANGED <<pollVars, trace, viewVars, editVars>>

InitWrap ==
    /\ oldValue \in WrapTexts
    /\ newValue \in WrapTexts
    /\ processed = <<>>
    /\ InitEditing(TRUE)
    /\ apiKeyConfig = SavedConfig
    /\ InitRest

NextWrap == Wrap

SpecWrap == InitWrap /\ [][NextWrap]_vars

\* ------------------------------------------------ reading a run's history
IsRequest(e) == e[1] = "request"
IsResponse(e) == e[1] = "response"
IsProgress(e) == e[1] = "progress"
IsSettle(e) == e[1] \in {"resolve", "reject"}

\* Number of getTaskStatus requests run r has issued.
RequestCount(r) == Len(SelectSeq(trace[r], IsRequest))

\* The responses run r has received, in order of arrival.
RECURSIVE PayloadsOf(_)
PayloadsOf(events) ==
    IF events = <<>> THEN <<>>
    ELSE << events[1][2] >> \o PayloadsOf(Tail(events))

ResponsesOf(r) == PayloadsOf(SelectSeq(trace[r], IsResponse))

\* The snapshots onProgress was called with, in order of the calls.
ProgressCallsOf(r) == PayloadsOf(SelectSeq(trace[r], IsProgress))

SuccessWithResult(response) ==
    response.status = "SUCCESS" /\ response.result # NoValue

NonTerminal(response) ==
    ~SuccessWithResult(response) /\ response.status # "FAILURE"

TimedOutError == NewError("Polling timed out")

\* ------------------------------------------------------------------ C1
\* C1 (as claimed): when every status response was non-terminal and the poll
\* rejected with the timed-out error, exactly maxAttempts status requests
\* have been issued, and the poll is over.
C1_TimeoutAfterMaxAttemptsRequests ==
    \A r \in Runs :
        ( /\ settled[r].state = "rejected"
          /\ settled[r].error = TimedOutError
          /\ \A i \in 1..Len(ResponsesOf(r)) : NonTerminal(ResponsesOf(r)[i]) )
        => RequestCount(r) = maxAttempts[r] /\ pc[r] = "done"

\* ------------------------------------------------------------------ C2
\* C2: the poll resolves with the result of the first response that is
\* SUCCESS with a result present, whatever non-terminal responses (with or
\* without progress) came before it; that response is the last one the poll
\* receives, and the poll resolves in no other case.
C2_ResolvesWithFirstSuccess ==
    \A r \in Runs :
        LET resp == ResponsesOf(r) IN
        /\ \A i \in 1..Len(resp) :
              ( SuccessWithResult(resp[i]) /\ \A j \in 1..(i - 1) : NonTerminal(resp[j]) )
              => /\ settled[r].state = "resolved"
                 /\ settled[r].result = resp[i].result
                 /\ i = Len(resp)
                 /\ pc[r] = "done"
        /\ settled[r].state = "resolved"
              => /\ Len(resp) > 0
                 /\ SuccessWithResult(resp[Len(resp)])
                 /\ settled[r].result = resp[Len(resp)].result

\* A poll resolved with r2 after two non-terminal responses, the first of
\* which carried progress.
C2_Witness ==
    \E r \in Runs :
        /\ settled[r].state = "resolved"
        /\ settled[r].result = "r2"
        /\ Len(ResponsesOf(r)) = 3
        /\ ResponsesOf(r)[1].progress # NoValue
        /\ ResponsesOf(r)[2].progress = NoValue

\* ------------------------------------------------------------------ C5
\* C5: with an onProgress callback, every response that carries progress is
\* followed at once by one onProgress call with that snapshot, before the
\* poll settles or schedules; a response without progress causes no call;
\* so the calls are the snapshots of the responses in order of arrival.
C5_ProgressOncePerResponseInOrder ==
    \A r \in Runs :
        LET tr == trace[r] IN
        /\ \A i \in 1..Len(tr) :
              /\ ( IsResponse(tr[i]) /\ onProgress[r] /\ tr[i][2].progress # NoValue )
                    => /\ i + 1 <= Len(tr)
                       /\ tr[i + 1] = <<"progress", tr[i][2].progress>>
                       /\ i + 2 <= Len(tr) /\ ~IsProgress(tr[i + 2])
              /\ IsProgress(tr[i])
                    => /\ onProgress[r]
                       /\ i > 1 /\ IsResponse(tr[i - 1])
                       /\ tr[i - 1][2].progress = tr[i][2]
        /\ onProgress[r] =>
              ProgressCallsOf(r) =
                  PayloadsOf(SelectSeq(
                      [i \in 1..Len(ResponsesOf(r)) |-> <<"p", ResponsesOf(r)[i].progress>>],
                      LAMBDA e : e[2] # NoValue))

\* A poll that resolved, whose first response carried p1 and whose terminal
\* response carried p2: onProgress was called with p1, then with p2.
C5_Witness ==
    \E r \in Runs :
        /\ settled[r].state = "resolved"
        /\ onProgress[r]
        /\ ProgressCallsOf(r) = <<"p1", "p2">>
        /\ Len(ResponsesOf(r)) = 3

\* ------------------------------------------------------------------ C6
\* C6 (as claimed): a FAILURE response makes the poll reject and stop, with
\* an error that carries the backend's message and that differs from the
\* timed-out error.
C6_FailureDistinctFromTimeout ==
    \A r \in Runs :
        LET resp == ResponsesOf(r) IN
        ( Len(resp) > 0 /\ resp[Len(resp)].status = "FAILURE" )
        => /\ settled[r].state = "rejected"
           /\ pc[r] = "done"
           /\ resp[Len(resp)].error \notin {NoValue, ""}
                 => settled[r].error.message = resp[Len(resp)].error
           /\ settled[r].error # TimedOutError

\* ------------------------------------------------------------------ C7
\* C7: when a status request fails, the poll rejects with that very error,
\* and the failure is the last thing the poll does: no further request and
\* no timer.
C7_RequestErrorPropagatesUnchanged ==
    \A r \in Runs :
        LET tr == trace[r] IN
        \A i \in 1..Len(tr) :
            tr[i][1] = "error"
            => /\ i + 1 = Len(tr)
               /\ tr[i + 1] = <<"reject", tr[i][2]>>
               /\ settled[r] = [state |-> "rejected", result |-> NoValue, error |-> tr[i][2]]
               /\ pc[r] = "done"

\* The third status request of a poll failed with a 404.
C7_Witness ==
    \E r \in Runs :
        /\ RequestCount(r) = 3
        /\ settled[r].state = "rejected"
        /\ settled[r].error = [name |-> "AxiosError",
                               message |-> "Request failed with status code 404"]

\* ------------------------------------------------------------------ C3
\* C3 (as claimed): at every moment at most one status request is
\* outstanding for a task.
C3_OneOutstandingRequestPerTask ==
    \A t \in TaskIds :
        Cardinality({ r \in Runs : pc[r] = "request" /\ taskId[r] = t }) <= 1

\* ------------------------------------------------------------------ C4
\* C4 (as claimed): once the view that started a poll has been discarded
\* while a cycle is scheduled, the pending cycle is suppressed: the poll
\* issues no further status request.
C4_NoRequestAfterDiscard ==
    [][ \A r \in Runs :
          ( fetchPc[r] = "polling" /\ pc[r] = "timer" /\ Discarded(r) )
          => pc'[r] # "request" ]_vars

\* ------------------------------------------------------------------ C8
\* The paragraphs of a render item.
ItemParagraphs(item) ==
    IF item.type = "CHANGED" THEN << item.paragraph >> ELSE item.paragraphs

RECURSIVE Flatten(_)
Flatten(items) ==
    IF items = <<>> THEN <<>>
    ELSE ItemParagraphs(items[1]) \o Flatten(Tail(items))

\* C8: the paragraphs of the render items, concatenated in emission order,
\* are exactly the paragraph sequence of the loaded result.
C8_RenderItemsPartitionParagraphs ==
    /\ ~data.isNull => Flatten(renderItems) = data.paragraphs
    /\ data.isNull => renderItems = <<>>

\* A loaded result [SKIPPED, UNCHANGED, CHANGED]: one group of two, one item.
C8_Witness ==
    /\ ~data.isNull
    /\ Len(data.paragraphs) = 3
    /\ data.paragraphs[1].status = "SKIPPED"
    /\ data.paragraphs[2].status = "UNCHANGED"
    /\ data.paragraphs[3].status = "CHANGED"
    /\ Len(renderItems) = 2

\* ------------------------------------------------------------------ C9
\* The example of the specification: statuses [U, C, U, U, C].
ExampleItems ==
    RenderItems([isNull |-> FALSE,
                 paragraphs |-> << ParagraphAt(0, "UNCHANGED"), ParagraphAt(1, "CHANGED"),
                                   ParagraphAt(2, "UNCHANGED"), ParagraphAt(3, "UNCHANGED"),
                                   ParagraphAt(4, "CHANGED") >>])

\* C9: originalIndex of every render item is the index, in the loaded
\* paragraph sequence, of the item's first paragraph; the paragraphs of a
\* loaded result are pairwise distinct, so that index is unique. The example
\* [U, C, U, U, C] gives group@0, changed@1, group{p2,p3}@2, changed@4.
C9_OriginalIndexIsFirstParagraph ==
    /\ \A k \in 1..Len(renderItems) :
          /\ renderItems[k].originalIndex \in 0..(Len(data.paragraphs) - 1)
          /\ data.paragraphs[renderItems[k].originalIndex + 1]
                = ItemParagraphs(renderItems[k])[1]
    /\ [k \in 1..Len(ExampleItems) |->
           <<ExampleItems[k].type, ExampleItems[k].originalIndex,
             Len(ItemParagraphs(ExampleItems[k]))>>]
         = << <<"UNCHANGED_GROUP", 0, 1>>, <<"CHANGED", 1, 1>>,
              <<"UNCHANGED_GROUP", 2, 2>>, <<"CHANGED", 4, 1>> >>

\* A loaded result [CHANGED, REJECTED, ERRORED]: the group starts at index 1.
C9_Witness ==
    /\ ~data.isNull
    /\ Len(renderItems) = 2
    /\ renderItems[2].type = "UNCHANGED_GROUP"
    /\ renderItems[2].originalIndex = 1
    /\ Len(renderItems[2].paragraphs) = 2

\* ----------------------------------------------------------------- C10
\* The number of CHANGED paragraphs of a result.
ChangedIndices(d) ==
    { i \in 0..(Len(d.paragraphs) - 1) : d.paragraphs[i + 1].status = "CHANGED" }

\* C10: right after a result became the loaded data, the selection map has
\* one entry per CHANGED paragraph, each equal to before, and no other
\* entry, whatever the map held before the load.
C10_LoadReplacesSelections ==
    ( lastHandler = "load" /\ ~data.isNull )
    => /\ DOMAIN selections = ChangedIndices(data)
       /\ Cardinality(DOMAIN selections) = Cardinality(ChangedIndices(data))
       /\ \A i \in DOMAIN selections : selections[i] = "before"

\* A result with two CHANGED paragraphs and one other has just been loaded.
C10_Witness ==
    /\ lastHandler = "load"
    /\ ~data.isNull
    /\ Len(data.paragraphs) = 3
    /\ Cardinality(ChangedIndices(data)) = 2
    /\ Cardinality(DOMAIN selections) = 2

\* ----------------------------------------------------------------- C11
\* C11: in every state of the review view, every key of the selection map
\* is the index of a CHANGED paragraph of the currently loaded result; when
\* no result is loaded the map is empty.
C11_SelectionKeysAreChangedIndices ==
    /\ ~data.isNull => DOMAIN selections \subseteq ChangedIndices(data)
    /\ data.isNull => selections = NoSelections

\* ----------------------------------------------------------------- C12
\* C12: allSelectionsMade is true exactly when the selection map has as many
\* entries as the currently loaded result has CHANGED paragraphs, and so is
\* false whenever the map has fewer entries.
C12_AllSelectionsMadeIffCountsAgree ==
    /\ allSelectionsMade
         <=> Cardinality(DOMAIN selections) = Cardinality(ChangedIndices(data))
    /\ Cardinality(DOMAIN selections) < Cardinality(ChangedIndices(data))
         => ~allSelectionsMade

\* A loaded result [CHANGED, UNCHANGED, CHANGED] with both selections present.
C12_Witness ==
    /\ ~data.isNull
    /\ Len(data.paragraphs) = 3
    /\ ChangedIndices(data) = {0, 2}
    /\ DOMAIN selections = {0, 2}
    /\ allSelectionsMade

\* ----------------------------------------------------------------- C13
\* C13: a call setSelection(index, choice) leaves the map with choice at
\* index and with every other entry as it was, so after any sequence of
\* calls the map holds, for each index, the choice of the last call for it.
C13_LastWriteWinsPerIndex ==
    [][ lastHandler' = "select"
        => LET index == lastSelection'[1]
               choice == lastSelection'[2]
           IN  /\ DOMAIN selections' = DOMAIN selections \cup {index}
               /\ selections'[index] = choice
               /\ \A j \in DOMAIN selections \ {index} :
                     selections'[j] = selections[j] ]_vars

\* Paragraph 0 was set to after by an earlier call; the last call set
\* paragraph 2 back to before.
C13_Witness ==
    /\ lastHandler = "select"
    /\ lastSelection = <<2, "before">>
    /\ DOMAIN selections = {0, 2}
    /\ selections[0] = "after"
    /\ selections[2] = "before"

IsBlank(text) == \A i \in 1..Len(text) : text[i] = " "

\* C18: a submit while the article title or the section title is blank
\* after trimming sends no edit request and sets an inline validation
\* error; the loaded result, the selections and the loading flag stay as
\* they were.
C18_BlankTitleSubmitSendsNothing ==
    [][ ( /\ lastHandler' = "submit"
          /\ IsBlank(articleTitle) \/ IsBlank(sectionTitle) )
        => /\ editRequest = NoRequest
           /\ editRequest' = NoRequest
           /\ editError' \in {"Article title is required.",
                              "Section title is required."}
           /\ data' = data
           /\ selections' = selections
           /\ editLoading' = editLoading ]_vars

\* A submit with article title "A" and a section title of one space.
C18_Witness ==
    /\ lastHandler = "submit"
    /\ articleTitle = <<"A">>
    /\ sectionTitle = <<" ">>
    /\ editError = "Section title is required."
    /\ editRequest = NoRequest
    /\ ~editLoading

\* ----------------------------------------------------------------- C19
\* A configuration with a key that is not blank for its selected provider.
UsableCredential(config) ==
    /\ ~config.isNull
    /\ config.provider \in DOMAIN config.keys
    /\ ~IsBlank(config.keys[config.provider])

\* The headers carry a key header whose value is not blank.
HasProviderKey(headers) ==
    \E p \in ApiProviders :
        KeyHeader(p) \in DOMAIN headers /\ ~IsBlank(headers[KeyHeader(p)])

\* C19: a submit without a usable credential (no configuration, or no key
\* or a blank key for the selected provider) sends no edit request and
\* fails, with the credential error once the titles are filled in; no edit
\* request is ever sent without a provider key header.
C19_SubmitWithoutCredentialFails ==
    [][ /\ ( lastHandler' = "submit" /\ ~UsableCredential(apiKeyConfig) )
           => /\ editRequest' = NoRequest
              /\ editError' # NoValue
              /\ ( ~IsBlank(articleTitle) /\ ~IsBlank(sectionTitle) )
                    => editError' = "Please configure your API key in settings."
        /\ ~editRequest'.isNull => HasProviderKey(editRequest'.headers) ]_vars

\* ----------------------------------------------------------------- C15
\* C15: the exported text has one segment per paragraph, in paragraph
\* order, joined by "\n\n"; the segment of paragraph i is its edited text
\* iff the paragraph is CHANGED and selections[i] is after, and its original
\* text otherwise, also for a CHANGED paragraph without selection and for a
\* paragraph that is not CHANGED but has a selection entry.
C15_ExportedTextPerParagraph ==
    lastHandler = "copy"
    => LET n == Len(data.paragraphs)
       IN  /\ Len(clipboard) = IF n = 0 THEN 0 ELSE 2 * n - 1
           /\ \A k \in 1..(n - 1) : clipboard[2 * k] = Separator
           /\ \A i \in 0..(n - 1) :
                 LET p == data.paragraphs[i + 1]
                     takesAfter == /\ p.status = "CHANGED"
                                   /\ i \in DOMAIN selections
                                   /\ selections[i] = "after"
                 IN  clipboard[2 * i + 1] = IF takesAfter THEN p.after ELSE p.before

\* [CHANGED, UNCHANGED, CHANGED] exported with selections {1: after,
\* 2: after}: before, before, after.
C15_Witness ==
    /\ lastHandler = "copy"
    /\ Len(data.paragraphs) = 3
    /\ ChangedIndices(data) = {0, 2}
    /\ DOMAIN selections = {1, 2}
    /\ selections[1] = "after"
    /\ selections[2] = "after"
    /\ clipboard = << <<"before", 0>>, Separator, <<"before", 1>>, Separator,
                      <<"after", 2>> >>

\* ----------------------------------------------------------------- C16
\* C16: the list DiffList renders is the header (unless hidden), then the
\* render items in order, then the footer, which is present iff
\* allSelectionsMade; with or without the footer, the header and the render
\* items keep their positions.
C16_ListIsHeaderItemsFooter ==
    ~data.isNull
    => LET h == IF isViewingTask THEN 0 ELSE 1
           f == IF allSelectionsMade THEN 1 ELSE 0
           v == virtuosoItems
           withFooter == VirtuosoItems(renderItems, editingMode, changedParagraphs,
                                       TRUE, copied, isViewingTask)
           withoutFooter == VirtuosoItems(renderItems, editingMode, changedParagraphs,
                                          FALSE, copied, isViewingTask)
       IN  /\ Len(v) = h + Len(renderItems) + f
           /\ \A k \in 1..Len(v) : v[k].type = "HEADER" <=> (h = 1 /\ k = 1)
           /\ \A k \in 1..Len(renderItems) : v[h + k] = renderItems[k]
           /\ \A k \in 1..Len(v) : v[k].type = "FOOTER" <=> (f = 1 /\ k = Len(v))
           /\ Len(withFooter) = Len(withoutFooter) + 1
           /\ \A k \in 1..Len(withoutFooter) : withFooter[k] = withoutFooter[k]

\* Header, a group, a CHANGED item and the footer.
C16_Witness ==
    /\ ~data.isNull
    /\ ~isViewingTask
    /\ Len(renderItems) = 2
    /\ allSelectionsMade
    /\ Len(virtuosoItems) = 4
    /\ virtuosoItems[1].type = "HEADER"
    /\ virtuosoItems[2].type = "UNCHANGED_GROUP"
    /\ virtuosoItems[3].type = "CHANGED"
    /\ virtuosoItems[4].type = "FOOTER"

\* ----------------------------------------------------------------- C20
\* C20: the copied flag becomes true only when the clipboard write
\* succeeded: a copy whose write failed leaves a false flag false.
C20_CopiedOnlyAfterWrite ==
    [][ lastHandler' \in {"copyRejected", "copyThrew"}
        => (copied' => copied) ]_vars

\* ----------------------------------------------------------------- C17
\* C17: once the poll started by the mounted view has exhausted its budget
\* and the view's fetch has finished, the view shows its task as failed
\* with the timeout message, which is not the message of a backend failure,
\* and is not loading.
C17_TimeoutEndsInErrorState ==
    \A r \in Runs :
        ( /\ Applies(r)
          /\ routeTaskId = taskId[r]
          /\ \A q \in Runs \ {r} : runInstance[q] # instance
          /\ fetchPc[r] = "done"
          /\ settled[r].state = "rejected"
          /\ settled[r].error = TimedOutError )
        => /\ ~interfaceLoading
           /\ interfaceError = TimedOutError.message
           /\ interfaceError \notin {"boom", "Task failed"}

\* ----------------------------------------------------------------- C21
\* The text without its zero-width break markers.
RECURSIVE StripMarkers(_)
StripMarkers(text) ==
    IF text = <<>> THEN <<>>
    ELSE (IF Head(text) = ZWSP THEN <<>> ELSE <<Head(text)>>)
         \o StripMarkers(Tail(text))

\* C21: for texts without break marker, removing every break marker from
\* either output of processWrappableUrls gives back the corresponding
\* argument exactly.
C21_StrippingMarkersRecoversInput ==
    processed # <<>>
    => /\ StripMarkers(processed[1]) = oldValue
       /\ StripMarkers(processed[2]) = newValue

\* ----------------------------------------------------------------- C22
\* For each character of the output that is not a marker, in order, the
\* number of markers that directly follow it.
RECURSIVE MarkerCounts(_)
MarkerCounts(output) ==
    IF output = <<>> THEN <<>>
    ELSE LET rest == MarkerCounts(SubSeq(output, 1, Len(output) - 1))
         IN  IF output[Len(output)] # ZWSP THEN Append(rest, 0)
             ELSE IF rest = <<>> THEN rest
             ELSE [rest EXCEPT ![Len(rest)] = @ + 1]

\* The occurrences of URLs in a text, as pairs of first and last position.
RECURSIVE UrlSpansFrom(_, _)
UrlSpansFrom(text, i) ==
    IF i > Len(text) THEN <<>>
    ELSE IF UrlEndAt(text, i) = 0 THEN UrlSpansFrom(text, i + 1)
    ELSE << <<i, UrlEndAt(text, i)>> >> \o UrlSpansFrom(text, UrlEndAt(text, i) + 1)

UrlSpans(text) == UrlSpansFrom(text, 1)

\* The URL occurs in both texts.
IsCommonUrl(url) ==
    /\ \E k \in 1..Len(ExtractUrls(oldValue)) : ExtractUrls(oldValue)[k] = url
    /\ \E k \in 1..Len(ExtractUrls(newValue)) : ExtractUrls(newValue)[k] = url

\* Every occurrence of a URL in input for which Common is as given carries
\* in output exactly the markers Markers allows, the output having kept the
\* characters of the input.
OccurrencesMarked(input, output, common, wrapped) ==
    StripMarkers(output) = input
    => \A n \in 1..Len(UrlSpans(input)) :
          LET span == UrlSpans(input)[n]
              url == SubSeq(input, span[1], span[2])
          IN  IsCommonUrl(url) = common
              => \A k \in span[1]..span[2] :
                    MarkerCounts(output)[k]
                      = IF wrapped /\ input[k] \in WrappableChars THEN 1 ELSE 0

\* C22: no break marker is inserted inside an occurrence of a URL that
\* occurs in only one of the two texts, also when a common URL is a prefix
\* or a substring of it.
C22_OneSidedUrlUntouched ==
    processed # <<>>
    => /\ OccurrencesMarked(oldValue, processed[1], FALSE, FALSE)
       /\ OccurrencesMarked(newValue, processed[2], FALSE, FALSE)

\* ----------------------------------------------------------------- C23
\* C23: every occurrence, in either output, of a URL that occurs in both
\* texts has a break marker after each of its characters from
\* / . - _ ? = & % # ~ and after no other character, also when several URLs
\* are common and one is a prefix of another.
C23_CommonUrlWrappedEverywhere ==
    processed # <<>>
    => /\ OccurrencesMarked(oldValue, processed[1], TRUE, TRUE)
       /\ OccurrencesMarked(newValue, processed[2], TRUE, TRUE)

\* ----------------------------------------------------------------- C24
\* The response a step of run r hands to poll(), if the step is one.
Received(r) == trace'[r][Len(trace[r]) + 1]

\* C24: a response that is neither SUCCESS with a result nor FAILURE (so
\* SUCCESS without a result, PENDING, STARTED, RETRY, REVOKED) never resolves
\* the poll and never rejects it with a task error: the poll stays pending
\* and schedules the next request while attempts < maxAttempts, and rejects
\* with the timed-out error otherwise.
C24_OnlySuccessWithResultOrFailureEnds ==
    [][ \A r \in Runs :
          ( /\ Len(trace'[r]) > Len(trace[r])
            /\ IsResponse(Received(r))
            /\ NonTerminal(Received(r)[2]) )
          => /\ settled'[r].state # "resolved"
             /\ settled'[r].state = "rejected" => settled'[r].error = TimedOutError
             /\ attempts[r] < maxAttempts[r]
                  => /\ settled'[r].state = "pending"
                     /\ pc'[r] = "timer"
                     /\ attempts'[r] = attempts[r] + 1 ]_vars

\* A SUCCESS response without a result and a REVOKED response were each
\* followed by a timer, and the poll is still pending.
C24_Witness ==
    /\ settled[1].state = "pending"
    /\ \E i, j \in 1..Len(trace[1]) :
          /\ IsResponse(trace[1][i]) /\ IsResponse(trace[1][j])
          /\ trace[1][i][2].status = "SUCCESS" /\ trace[1][i][2].result = NoValue
          /\ trace[1][j][2].status = "REVOKED"
          /\ i < Len(trace[1]) /\ trace[1][i + 1][1] \in {"setTimeout", "progress"}
          /\ j < Len(trace[1]) /\ trace[1][j + 1][1] = "setTimeout"

\* ----------------------------------------------------------------- C26
\* C26: a run settles at most once, and nothing follows its settling: the
\* resolve or reject is the last event of the run's history (no status
\* request, no timer and no onProgress call comes after it), the run is
\* over, and a run that is over has settled.
C26_SettlesOnceThenSilent ==
    \A r \in Runs :
        /\ \A i \in 1..Len(trace[r]) :
              IsSettle(trace[r][i])
              => /\ i = Len(trace[r])
                 /\ settled[r].state # "pending"
                 /\ pc[r] = "done"
        /\ settled[r].state # "pending"
              => /\ pc[r] = "done"
                 /\ trace[r] # <<>>
                 /\ IsSettle(trace[r][Len(trace[r])])

\* A run that made an onProgress call and set a timer has been rejected by
\* a FAILURE response.
C26_Witness ==
    /\ settled[1].state = "rejected"
    /\ settled[1].error = NewError("boom")
    /\ ProgressCallsOf(1) # <<>>
    /\ RequestCount(1) >= 2

\* ----------------------------------------------------------------- C27
\* C27: the directly started run (run 1), with any maxAttempts, eventually
\* resolves or rejects once it was started, when every status request
\* completes and every timer fires, whatever responses arrive.
C27_PollEventuallySettles ==
    (pc[1] # "idle") ~> (settled[1].state # "pending")

\* A run that received only non-terminal responses, at least two of them,
\* has ended rejected with the timed-out error.
C27_Witness ==
    /\ settled[1].state = "rejected"
    /\ settled[1].error = TimedOutError
    /\ Len(ResponsesOf(1)) >= 2
    /\ \A i \in 1..Len(ResponsesOf(1)) : NonTerminal(ResponsesOf(1)[i])

\* ----------------------------------------------------------------- C25
\* C25 (as claimed): the task view holds a progress snapshot only while it
\* is polling: in every state where pollingForResults is false,
\* currentProgress is null.
C25_NoSnapshotUnlessPolling ==
    currentProgress # NoValue => pollingForResults

\* ----------------------------------------------------------------- C30
\* C30 (as claimed): once the view that started a poll has been discarded
\* or shows another task, a response of that poll writes no result, no
\* status and no progress snapshot into the state of the view.
C30_StalePollWritesNothing ==
    [][ \A r \in Runs :
          ( /\ fetchPc[r] = "polling"
            /\ pc[r] = "request" /\ pc'[r] # "request"
            /\ Discarded(r) )
          => /\ task'.result = task.result
             /\ task'.status = task.status
             /\ currentProgress' \in {currentProgress, NoValue} ]_vars

\* ----------------------------------------------------------------- C28
\* C28: in the render items of a loaded result every UNCHANGED_GROUP holds
\* at least one paragraph and only paragraphs whose status is not CHANGED
\* (UNCHANGED, REJECTED, SKIPPED and ERRORED alike), every CHANGED
\* paragraph is an item of its own, and no UNCHANGED_GROUP follows another
\* directly.
C28_GroupsAreMaximalRuns ==
    /\ \A k \in 1..Len(renderItems) :
          IF renderItems[k].type = "UNCHANGED_GROUP"
            THEN /\ Len(renderItems[k].paragraphs) > 0
                 /\ \A n \in 1..Len(renderItems[k].paragraphs) :
                       renderItems[k].paragraphs[n].status
                         \in ParagraphStatuses \ {"CHANGED"}
                 /\ k > 1 => renderItems[k - 1].type = "CHANGED"
            ELSE /\ renderItems[k].type = "CHANGED"
                 /\ renderItems[k].paragraph.status = "CHANGED"
    /\ ~data.isNull
         => Cardinality({ k \in 1..Len(renderItems) : renderItems[k].type = "CHANGED" })
              = Cardinality(ChangedIndices(data))

\* A loaded result [REJECTED, ERRORED, CHANGED]: the two paragraphs that are
\* not CHANGED, of different statuses, share one group.
C28_Witness ==
    /\ ~data.isNull
    /\ Len(data.paragraphs) = 3
    /\ data.paragraphs[1].status = "REJECTED"
    /\ data.paragraphs[2].status = "ERRORED"
    /\ data.paragraphs[3].status = "CHANGED"
    /\ Len(renderItems) = 2
    /\ renderItems[1].type = "UNCHANGED_GROUP"
    /\ Len(renderItems[1].paragraphs) = 2

\* ----------------------------------------------------------------- C29
\* C29: in every state where a result is loaded and its default selections
\* have been seeded, before and after any selection changes on its CHANGED
\* items, allSelectionsMade is true and the list ends with the export
\* footer, also when the result has no CHANGED paragraph.
C29_FooterFromFirstSeededState ==
    ~data.isNull => allSelectionsMade /\ FooterShown

\* A result with two CHANGED paragraphs after a selection change: one entry
\* is after, the other still the seeded before.
C29_Witness ==
    /\ ~data.isNull
    /\ lastHandler = "select"
    /\ changedParagraphs = 2
    /\ \E i, j \in DOMAIN selections : selections[i] = "after" /\ selections[j] = "before"
    /\ FooterShown

====
